---- MODULE Spec2Model ----
(***************************************************************************)
(* The adaptive quiz session engine of app/main.py: QuizManager.start,     *)
(* QuizManager.answer and the pool helpers they call, driven through the   *)
(* two endpoints quiz_start and quiz_answer.                               *)
(*                                                                         *)
(* A topic resolves to one sheet of the workbook; a sheet is described by  *)
(* the number of its easy, medium and hard rows.  random.sample is a       *)
(* nondeterministic choice among all its possible results.                 *)
(***************************************************************************)
EXTENDS Integers, Sequences, FiniteSets, TLC

\* ---- bounds of the model ------------------------------------------------
MaxEasy == 4
MaxMedium == 2
MaxHard == 1
MaxSessions == 1
MaxAsked == 9
MaxThreads == 2
MaxCached == 2
MaxPairRows == 2
MaxPairAsked == 2
MaxConcAsked == 2
MaxDrawEasy == 6
MaxRawLen == 2

\* ---- program constants --------------------------------------------------
Phase1Size == 5
LastPhase1Index == 4
PassMark == 3
NumOptions == 4

VARIABLES sessions, cache, resp, hist, thr, row

vars == <<sessions, cache, resp, hist, thr, row>>

None == "None"

Tiers == {"easy", "medium", "hard"}

\* Optional[bool] as stored in q6_result / q7_result
OptBool(b) == IF b THEN "True" ELSE "False"

Min(a, b) == IF a <= b THEN a ELSE b

\* ---- the question bank --------------------------------------------------
\* A sheet with e easy, m medium and h hard rows, in that order.
Topics == (0..MaxEasy) \X (0..MaxMedium) \X (0..MaxHard)

TierOfRow(topic, n) ==
    IF n <= topic[1] THEN "easy"
    ELSE IF n <= topic[1] + topic[2] THEN "medium"
    ELSE "hard"

\* one item as _load_sheet builds it; the row number stands for the text
\* and for the four option strings
Item(topic, n) ==
    [text |-> n, options |-> n, correct_index |-> n % NumOptions,
     difficulty |-> TierOfRow(topic, n)]

LoadSheet(topic) ==
    {Item(topic, n) : n \in 1..(topic[1] + topic[2] + topic[3])}

\* lines 140-143: the parsed sheet of a topic is read from the cache once loaded
CachedSheet(topic) ==
    IF topic \in DOMAIN cache THEN cache[topic] ELSE LoadSheet(topic)

\* lines 237-241: a sheet with questions is cached, an empty one raises before
CacheAfter(topic) ==
    IF CachedSheet(topic) = {}
    THEN cache
    ELSE [t \in DOMAIN cache \cup {topic} |->
            IF t = topic THEN CachedSheet(topic) ELSE cache[t]]

SplitPools(items) ==
    [name \in Tiers |-> {it \in items : it.difficulty = name}]

\* ---- pool helpers -------------------------------------------------------
RECURSIVE Samples(_, _)
\* every result random.sample(pool, k) can give: the ordered k-selections
Samples(pool, k) ==
    IF k = 0 THEN {<<>>}
    ELSE UNION {{<<x>> \o s : s \in Samples(pool \ {x}, k - 1)} : x \in pool}

Draw(pool, k) ==
    IF k <= 0 THEN {<<>>}
    ELSE IF Cardinality(pool) <= k THEN Samples(pool, Cardinality(pool))
    ELSE Samples(pool, k)

Range(s) == {s[i] : i \in 1..Len(s)}

Prefix(s, k) == SubSeq(s, 1, Min(k, Len(s)))

RECURSIVE FallbackLoop(_, _, _, _)
FallbackLoop(pools, wanted, k, chosen) ==
    IF wanted = <<>>
    THEN IF Len(chosen) < k
         THEN LET all_pool == (UNION {pools[name] : name \in Tiers}) \ Range(chosen)
              IN {Prefix(chosen \o d, k) : d \in Draw(all_pool, k - Len(chosen))}
         ELSE {Prefix(chosen, k)}
    ELSE LET name == Head(wanted)
             take == Min(k - Len(chosen), Cardinality(pools[name]))
         IN IF take > 0
            THEN UNION {FallbackLoop(pools, Tail(wanted), k, chosen \o d) :
                            d \in Draw(pools[name], take)}
            ELSE FallbackLoop(pools, Tail(wanted), k, chosen)

\* a slip of the preference: every tier is drawn from at once
FallbackTakeAnyTier(pools, wanted, k) == FallbackLoop(pools, <<>>, k, <<>>)

FallbackTake(pools, wanted, k) == FallbackLoop(pools, wanted, k, <<>>)

\* a slip of the fallback table: a hard request tries medium first
OrderMediumFirst(want) ==
    CASE want = "hard" -> <<"medium", "hard", "easy">>
      [] want = "medium" -> <<"medium", "easy", "hard">>
      [] want = "easy" -> <<"easy", "medium", "hard">>

Order(want) ==
    CASE want = "hard" -> <<"hard", "medium", "easy">>
      [] want = "medium" -> <<"medium", "easy", "hard">>
      [] want = "easy" -> <<"easy", "medium", "hard">>

\* the three preferred tiers for Q6, Q7, Q8
AdaptiveSeq(q6_correct, q7_correct) ==
    <<"hard",
      IF q6_correct THEN "hard" ELSE "medium",
      IF q7_correct = "True" THEN "hard"
      ELSE IF q7_correct = "False" THEN "easy" ELSE "medium">>

RECURSIVE AdaptiveLoop(_, _, _)
AdaptiveLoop(pools, seq, chosen) ==
    IF seq = <<>> THEN {chosen}
    ELSE UNION {
           IF pick # <<>> /\ pick[1] \notin Range(chosen)
           THEN AdaptiveLoop(pools, Tail(seq), Append(chosen, pick[1]))
           ELSE AdaptiveLoop(pools, Tail(seq), chosen) :
           pick \in FallbackTake(pools, Order(Head(seq)), 1)}

SelectAdaptive(pools, q6_correct, q7_correct) ==
    AdaptiveLoop(pools, AdaptiveSeq(q6_correct, q7_correct), <<>>)

\* ---- responses ----------------------------------------------------------
NoQuestion == [text |-> 0, options |-> 0, difficulty |-> "none"]

\* a slip of the reply: the stored item is returned as it is
PublicWholeItem(q) == q

\* what a response shows of a question
Public(q) == [text |-> q.text, options |-> q.options, difficulty |-> q.difficulty]

\* an exception inside start/answer, turned into HTTP 400 by the endpoint
Raise ==
    [code |-> 400, correct |-> FALSE, done |-> FALSE, question |-> NoQuestion,
     score |-> 0, total |-> 0, unlock_next |-> FALSE, status |-> ""]

MissingAnswer == [Raise EXCEPT !.code = 422]

Continue(correct, nxt) ==
    [code |-> 200, correct |-> correct, done |-> FALSE, question |-> Public(nxt),
     score |-> 0, total |-> 0, unlock_next |-> FALSE, status |-> ""]

Final(correct, score, total, unlock, status) ==
    [code |-> 200, correct |-> correct, done |-> TRUE, question |-> NoQuestion,
     score |-> score, total |-> total, unlock_next |-> unlock, status |-> status]

\* ---- QuizManager._finish --------------------------------------------------
FinishStatus(total, score) ==
    IF total >= 6
    THEN IF total = 6 /\ score = 5 THEN "Confident"
         ELSE IF total = 7 /\ score = 6 THEN "Proficient"
         ELSE IF total = 8 /\ score = 7 THEN "Master"
         ELSE IF total = 8 /\ score = 8 THEN "Champion"
         ELSE "Great progress"
    ELSE "Ready for next"

Finish(sess, last_correct) ==
    Final(last_correct, sess.score, sess.asked,
          sess.unlock_next \/ sess.phase = 2,
          FinishStatus(sess.asked, sess.score))

\* ---- QuizManager.start ----------------------------------------------------
\* The session literal also names sheet_key (line 375), which start does not
\* bind; the model keeps the fields that answer and _finish read.
NewSession(first5, pools) ==
    [phase |-> 1, index |-> 0, first5 |-> first5, first5_correct |-> 0,
     pools |-> pools, q6_result |-> None, q7_result |-> None,
     adaptive |-> <<>>, score |-> 0, asked |-> 0, unlock_next |-> FALSE]

\* the outcomes of start on a topic: whether a session is stored, which, and the reply
StartOutcomes(topic) ==
    LET all_items == CachedSheet(topic)
        pools == SplitPools(all_items)
    IN IF all_items = {}
       THEN {[stored |-> FALSE, sess |-> NewSession(<<>>, pools), out |-> Raise]}
       ELSE {IF first5 = <<>>
             THEN [stored |-> FALSE, sess |-> NewSession(<<>>, pools), out |-> Raise]
             ELSE [stored |-> TRUE, sess |-> NewSession(first5, pools),
                   out |-> Continue(FALSE, first5[1])] :
             first5 \in FallbackTake(pools, <<"easy", "medium">>, Phase1Size)}

\* ---- QuizManager.answer ---------------------------------------------------
\* a slip of the grading: the score grows with every graded answer
GradedScoreAlways(sess, correct, phase1) ==
    [sess EXCEPT !.first5_correct = IF phase1 /\ correct THEN @ + 1 ELSE @,
                 !.score = @ + 1,
                 !.asked = @ + 1]

Graded(sess, correct, phase1) ==
    [sess EXCEPT !.first5_correct = IF phase1 /\ correct THEN @ + 1 ELSE @,
                 !.score = IF correct THEN @ + 1 ELSE @,
                 !.asked = @ + 1]

\* a slip of the comparison: exactly PassMark right no longer passes
PassedStrict(first5_correct) == first5_correct > PassMark

\* line 421
Passed(first5_correct) == first5_correct >= PassMark

\* lines 420-457: the decision after the last Phase-1 question
Phase1Decision(s1, correct) ==
    LET passed == Passed(s1.first5_correct)
        s2 == [s1 EXCEPT !.unlock_next = passed]
    IN IF s2.first5_correct < Phase1Size
       THEN {[sess |-> s2,
              out |-> Final(correct, s2.score, s2.asked, passed,
                            IF passed THEN "Ready for next" ELSE "Review & retry")]}
       ELSE {IF adaptive = <<>>
             THEN [sess |-> s2,
                   out |-> Final(correct, s2.score, s2.asked, TRUE, "Ready for next")]
             ELSE [sess |-> [s2 EXCEPT !.phase = 2, !.adaptive = adaptive, !.index = 0],
                   out |-> Continue(correct, adaptive[1])] :
             adaptive \in SelectAdaptive(s2.pools, TRUE, None)}

\* lines 402-457; sequences are 1-based, the code's index is 0-based
AnswerPhase1(sess, answer_index) ==
    LET i == sess.index
    IN IF i >= Len(sess.first5)
       THEN {[sess |-> sess, out |-> Raise]}
       ELSE LET curr == sess.first5[i + 1]
                correct == (answer_index = curr.correct_index)
                s1 == Graded(sess, correct, TRUE)
            IN IF i < LastPhase1Index
               THEN LET s2 == [s1 EXCEPT !.index = @ + 1]
                    IN IF s2.index >= Len(s2.first5)
                       THEN {[sess |-> s2, out |-> Raise]}
                       ELSE {[sess |-> s2,
                              out |-> Continue(correct, s2.first5[s2.index + 1])]}
               ELSE Phase1Decision(s1, correct)

\* lines 467-481: after Q6
AfterQ6(s1, correct) ==
    LET s2 == [s1 EXCEPT !.q6_result = OptBool(correct)]
    IN {LET s3 == [s2 EXCEPT !.adaptive = Prefix(rem, 2), !.index = 0]
        IN [sess |-> s3,
            out |-> IF s3.adaptive # <<>>
                    THEN Continue(correct, s3.adaptive[1])
                    ELSE Finish(s3, correct)] :
        rem \in SelectAdaptive(s2.pools, correct, None)}

\* lines 483-497: after Q7
AfterQ7(s1, correct) ==
    LET s2 == [s1 EXCEPT !.q7_result = OptBool(correct)]
    IN {LET s3 == [s2 EXCEPT !.adaptive = Prefix(q8, 1), !.index = 0]
        IN [sess |-> s3,
            out |-> IF s3.adaptive # <<>>
                    THEN Continue(correct, s3.adaptive[1])
                    ELSE Finish(s3, correct)] :
        q8 \in SelectAdaptive(s2.pools, s2.q6_result = "True", OptBool(correct))}

\* lines 459-501
AnswerPhase2(sess, answer_index) ==
    LET i == sess.index
    IN IF i >= Len(sess.adaptive)
       THEN {[sess |-> sess, out |-> Raise]}
       ELSE LET curr == sess.adaptive[i + 1]
                correct == (answer_index = curr.correct_index)
                s1 == Graded(sess, correct, FALSE)
            IN IF i = 0 THEN AfterQ6(s1, correct)
               ELSE IF i = 1 THEN AfterQ7(s1, correct)
               ELSE {[sess |-> s1, out |-> Finish(s1, correct)]}

AnswerOutcomes(sess, answer_index) ==
    IF sess.phase = 1 THEN AnswerPhase1(sess, answer_index)
    ELSE AnswerPhase2(sess, answer_index)

\* ---- state ----------------------------------------------------------------
SessionIds == 1..MaxSessions

\* "" and ids never handed out
UnknownId == 0

\* the integers a caller may send as answer; NumOptions is out of range
Answers == 0..NumOptions

\* what the callers of one session have seen so far
NoHistory ==
    [issued |-> {}, nIssued |-> 0, gradings |-> 0, right |-> 0,
     p1right |-> 0, p2gradings |-> 0, finished |-> FALSE, last |-> NoQuestion]

Reply(op, sid, out) ==
    [op |-> op, sid |-> sid, code |-> out.code, correct |-> out.correct,
     done |-> out.done, question |-> out.question, score |-> out.score,
     total |-> out.total, unlock_next |-> out.unlock_next, status |-> out.status]

Observe(h, before, out) ==
    LET graded == out.code = 200
        asksQ == out.question # NoQuestion
    IN [issued |-> IF asksQ THEN h.issued \cup {out.question.text} ELSE h.issued,
        nIssued |-> IF asksQ THEN h.nIssued + 1 ELSE h.nIssued,
        gradings |-> IF graded THEN h.gradings + 1 ELSE h.gradings,
        right |-> IF graded /\ out.correct THEN h.right + 1 ELSE h.right,
        p1right |-> IF graded /\ out.correct /\ h.gradings < Phase1Size
                    THEN h.p1right + 1 ELSE h.p1right,
        p2gradings |-> IF graded /\ before.phase = 2
                       THEN h.p2gradings + 1 ELSE h.p2gradings,
        finished |-> h.finished \/ out.done,
        last |-> IF asksQ THEN out.question ELSE h.last]

\* the request handlers that are between two steps of answer
Threads == 1..MaxThreads

Idle == [pc |-> "idle"]

\* an empty cell (None in the code), kept apart from every text
NoValue == <<None>>

\* what a call of _idx_from_correct gives: an index, or an exception
Returns(i) == [raised |-> FALSE, index |-> i]

\* no row of a sheet has been read yet
NoRow == [raw |-> NoValue, options |-> <<>>, correct |-> Returns(0)]

Init ==
    /\ sessions = <<>>
    /\ cache = <<>>
    /\ hist = <<>>
    /\ resp = Reply("none", UnknownId, Raise)
    /\ thr = [t \in Threads |-> Idle]
    /\ row = NoRow

\* POST /quiz/start, the new session id drawn from ids
StartIn(topic, ids) ==
    /\ Cardinality(DOMAIN sessions) < Cardinality(ids)
    /\ cache' = CacheAfter(topic)
    /\ UNCHANGED <<thr, row>>
    /\ \E o \in StartOutcomes(topic) :
         IF ~o.stored
         THEN /\ resp' = Reply("start", UnknownId, o.out)
              /\ UNCHANGED <<sessions, hist>>
         ELSE \E sid \in ids \ DOMAIN sessions :
                /\ sessions' = [s \in DOMAIN sessions \cup {sid} |->
                                  IF s = sid THEN o.sess ELSE sessions[s]]
                /\ hist' = [s \in DOMAIN sessions \cup {sid} |->
                              IF s = sid
                              THEN [NoHistory EXCEPT !.issued = {o.out.question.text},
                                                     !.nIssued = 1,
                                                     !.last = o.out.question]
                              ELSE hist[s]]
                /\ resp' = Reply("start", sid, o.out)

\* POST /quiz/start
QuizStart(topic) == StartIn(topic, SessionIds)

\* POST /quiz/answer without an answer
QuizAnswerMissing(sid) ==
    /\ resp' = Reply("answer", sid, MissingAnswer)
    /\ UNCHANGED <<sessions, cache, hist, thr, row>>

\* a slip of the lookup: the store creates an entry for an id it does not hold
QuizAnswerUnknownCreates(sid, answer) ==
    /\ sid \notin DOMAIN sessions
    /\ sessions' = [s \in DOMAIN sessions \cup {sid} |->
                      IF s = sid THEN NewSession(<<>>, SplitPools({})) ELSE sessions[s]]
    /\ hist' = [s \in DOMAIN sessions \cup {sid} |->
                  IF s = sid THEN NoHistory ELSE hist[s]]
    /\ resp' = Reply("answer", sid, Raise)
    /\ UNCHANGED <<cache, thr, row>>

\* POST /quiz/answer with a session id the store does not hold
QuizAnswerUnknown(sid, answer) ==
    /\ sid \notin DOMAIN sessions
    /\ resp' = Reply("answer", sid, Raise)
    /\ UNCHANGED <<sessions, cache, hist, thr, row>>

\* a slip of the store: the running score is kept once for all sessions
QuizAnswerSharedScore(sid, answer) ==
    /\ sid \in DOMAIN sessions
    /\ sessions[sid].asked < MaxAsked
    /\ UNCHANGED <<cache, thr, row>>
    /\ \E o \in AnswerOutcomes(sessions[sid], answer) :
         /\ sessions' = [s \in DOMAIN sessions |->
                           IF s = sid THEN o.sess
                           ELSE [sessions[s] EXCEPT !.score = o.sess.score]]
         /\ hist' = [hist EXCEPT ![sid] = Observe(@, sessions[sid], o.out)]
         /\ resp' = Reply("answer", sid, o.out)

\* POST /quiz/answer on a stored session
QuizAnswer(sid, answer) ==
    /\ sid \in DOMAIN sessions
    /\ sessions[sid].asked < MaxAsked
    /\ UNCHANGED <<cache, thr, row>>
    /\ \E o \in AnswerOutcomes(sessions[sid], answer) :
         /\ sessions' = [sessions EXCEPT ![sid] = o.sess]
         /\ hist' = [hist EXCEPT ![sid] = Observe(@, sessions[sid], o.out)]
         /\ resp' = Reply("answer", sid, o.out)

Next ==
    \/ \E topic \in Topics : QuizStart(topic)
    \/ \E sid \in SessionIds \cup {UnknownId} : QuizAnswerMissing(sid)
    \/ \E sid \in SessionIds \cup {UnknownId}, answer \in Answers :
         QuizAnswerUnknown(sid, answer)
    \/ \E sid \in SessionIds, answer \in Answers : QuizAnswer(sid, answer)

Spec == Init /\ [][Next]_vars

\* ---- start as lines 371-387 are written -----------------------------------
\* The session literal evaluates the name sheet_key (line 375).  start binds
\* no such name (its assignment, line 363, is commented out) and the module
\* has no global of that name: the literal raises NameError after the sheet
\* was loaded and cached, and no session is stored.
StartOutcomesAsWritten(topic) ==
    {[o EXCEPT !.stored = FALSE, !.out = Raise] : o \in StartOutcomes(topic)}

QuizStartAsWritten(topic) ==
    /\ topic \in DOMAIN cache \/ Cardinality(DOMAIN cache) < MaxCached
    /\ cache' = CacheAfter(topic)
    /\ \E o \in StartOutcomesAsWritten(topic) :
         resp' = Reply("start", UnknownId, o.out)
    /\ UNCHANGED <<sessions, hist, thr, row>>

NextAsWritten ==
    \/ \E topic \in Topics : QuizStartAsWritten(topic)
    \/ \E sid \in SessionIds \cup {UnknownId} : QuizAnswerMissing(sid)
    \/ \E sid \in SessionIds \cup {UnknownId}, answer \in Answers :
         QuizAnswerUnknown(sid, answer)

SpecAsWritten == Init /\ [][NextAsWritten]_vars

\* ---- two sessions side by side --------------------------------------------
PairIds == 1..(MaxSessions + 1)

\* the sheets of at most MaxPairRows rows
PairTopics == {t \in Topics : t[1] + t[2] + t[3] <= MaxPairRows}

PairStart(topic) == StartIn(topic, PairIds)

PairAnswer(sid, answer) ==
    /\ sid \in DOMAIN sessions
    /\ sessions[sid].asked < MaxPairAsked
    /\ QuizAnswer(sid, answer)

NextPair ==
    \/ \E topic \in PairTopics : PairStart(topic)
    \/ \E sid \in PairIds \cup {UnknownId} : QuizAnswerMissing(sid)
    \/ \E sid \in PairIds \cup {UnknownId}, answer \in Answers :
         QuizAnswerUnknown(sid, answer)
    \/ \E sid \in PairIds, answer \in Answers : PairAnswer(sid, answer)

SpecPair == Init /\ [][NextPair]_vars

\* ---- two handlers of quiz_answer at once ----------------------------------
\* quiz_answer is a plain def endpoint, which the framework runs on a thread
\* pool, and answer takes no lock.  A handler is split where another thread
\* can run in between: first it reads the session (lines 397-405 or 460-462),
\* then it writes the grading and decides (lines 406-457 or 463-501).

\* lines 397-405, 460-462: what the handler holds after reading
ReadSession(sess, sid, answer_index) ==
    LET list == IF sess.phase = 1 THEN sess.first5 ELSE sess.adaptive
        curr == list[sess.index + 1]
    IN [pc |-> "read", sid |-> sid, phase |-> sess.phase, i |-> sess.index,
        curr |-> curr, correct |-> (answer_index = curr.correct_index)]

\* lines 406-457, 463-501, on the session as it is now and the values read before
WriteOutcomes(sess, loc) ==
    IF loc.phase = 1
    THEN LET s1 == Graded(sess, loc.correct, TRUE)
         IN IF loc.i < LastPhase1Index
            THEN LET s2 == [s1 EXCEPT !.index = @ + 1]
                 IN IF s2.index >= Len(s2.first5)
                    THEN {[sess |-> s2, out |-> Raise]}
                    ELSE {[sess |-> s2,
                           out |-> Continue(loc.correct, s2.first5[s2.index + 1])]}
            ELSE Phase1Decision(s1, loc.correct)
    ELSE LET s1 == Graded(sess, loc.correct, FALSE)
         IN IF loc.i = 0 THEN AfterQ6(s1, loc.correct)
            ELSE IF loc.i = 1 THEN AfterQ7(s1, loc.correct)
            ELSE {[sess |-> s1, out |-> Finish(s1, loc.correct)]}

\* a handler reads its session; an index past the list raises at once
ConcRead(t, sid, answer) ==
    /\ thr[t] = Idle
    /\ sid \in DOMAIN sessions
    /\ sessions[sid].asked < MaxConcAsked
    /\ LET sess == sessions[sid]
           list == IF sess.phase = 1 THEN sess.first5 ELSE sess.adaptive
       IN IF sess.index >= Len(list)
          THEN /\ resp' = Reply("answer", sid, Raise)
               /\ UNCHANGED thr
          ELSE /\ thr' = [thr EXCEPT ![t] = ReadSession(sess, sid, answer)]
               /\ UNCHANGED resp
    /\ UNCHANGED <<sessions, cache, hist, row>>

\* the handler writes the grading, decides and replies
ConcWrite(t) ==
    /\ thr[t] # Idle
    /\ LET sid == thr[t].sid
       IN \E o \in WriteOutcomes(sessions[sid], thr[t]) :
            /\ sessions' = [sessions EXCEPT ![sid] = o.sess]
            /\ hist' = [hist EXCEPT ![sid] = Observe(@, sessions[sid], o.out)]
            /\ resp' = Reply("answer", sid, o.out)
    /\ thr' = [thr EXCEPT ![t] = Idle]
    /\ UNCHANGED <<cache, row>>

NextConc ==
    \/ \E topic \in PairTopics : QuizStart(topic)
    \/ \E t \in Threads, sid \in SessionIds, answer \in Answers :
         ConcRead(t, sid, answer)
    \/ \E t \in Threads : ConcWrite(t)

SpecConc == Init /\ [][NextConc]_vars

\* ---- the Phase-1 draw on banks with more easy rows than Phase 1 asks ------
DrawTopics == (0..MaxDrawEasy) \X (0..MaxMedium) \X (0..MaxHard)

DrawStart(topic) == StartIn(topic, SessionIds)

NextDraw == \E topic \in DrawTopics : DrawStart(topic)

SpecDraw == Init /\ [][NextDraw]_vars

\* ---- _idx_from_correct ------------------------------------------------------
\* A cell text is a sequence of characters.  "sup2" stands for the character
\* SUPERSCRIPT TWO, for which str.isdigit is true and int raises ValueError.
Chars == {" ", "2", "7", "b", "B", "x", "sup2"}

DigitChars == {"2", "7", "sup2"}

DecimalValue == [c \in {"2", "7"} |-> IF c = "2" THEN 2 ELSE 7]

\* int(s) fails, line 122
ValueError == [raised |-> TRUE, index |-> 0]

RECURSIVE Texts(_)
\* the texts of at most n characters
Texts(n) ==
    IF n = 0 THEN {<<>>}
    ELSE Texts(n - 1) \cup {Append(t, c) : t \in {u \in Texts(n - 1) : Len(u) = n - 1},
                                           c \in Chars}

\* str(raw) of the values a correct-answer cell can hold
RawValues == Texts(MaxRawLen)

\* the option texts of the rows looked at
OptionTexts == {<<"2">>, <<"7">>, <<"b">>, <<"x">>, <<"x", " ">>}

RECURSIVE Strip(_)
\* str.strip
Strip(s) ==
    IF s = <<>> THEN s
    ELSE IF Head(s) = " " THEN Strip(Tail(s))
    ELSE IF s[Len(s)] = " " THEN Strip(SubSeq(s, 1, Len(s) - 1))
    ELSE s

\* str.isdigit
IsDigit(s) == s # <<>> /\ \A i \in 1..Len(s) : s[i] \in DigitChars

RECURSIVE IntOf(_)
\* int(s) of a text of decimal digits
IntOf(s) ==
    IF s = <<>> THEN 0
    ELSE 10 * IntOf(SubSeq(s, 1, Len(s) - 1)) + DecimalValue[s[Len(s)]]

\* str.upper
Upper(s) ==
    [i \in 1..Len(s) |-> IF s[i] = "b" THEN "B" ELSE IF s[i] = "x" THEN "X" ELSE s[i]]

\* line 125
Letters == [l \in {<<"A">>, <<"B">>, <<"C">>, <<"D">>} |->
              IF l = <<"A">> THEN 0 ELSE IF l = <<"B">> THEN 1
              ELSE IF l = <<"C">> THEN 2 ELSE 3]

\* lines 116-131
IdxFromCorrect(raw, options) ==
    IF raw = NoValue THEN Returns(0)
    ELSE LET s == Strip(raw)
             hits == {i \in 1..Len(options) : s = options[i]}
         IN IF IsDigit(s) /\ \E i \in 1..Len(s) : s[i] \notin DOMAIN DecimalValue
            THEN ValueError
            ELSE IF IsDigit(s) /\ IntOf(s) \in 0..(NumOptions - 1)
            THEN Returns(IntOf(s))
            ELSE IF Upper(s) \in DOMAIN Letters THEN Returns(Letters[Upper(s)])
            ELSE IF hits # {}
            THEN Returns((CHOOSE i \in hits : \A j \in hits : i <= j) - 1)
            ELSE Returns(0)

\* lines 209-218: one row of the sheet is read and its correct answer normalised
LoadRow(raw, options) ==
    /\ row' = [raw |-> raw, options |-> options,
               correct |-> IdxFromCorrect(raw, options)]
    /\ UNCHANGED <<sessions, cache, resp, hist, thr>>

\* the rows do not depend on each other: one row is followed
NextLoad ==
    /\ row = NoRow
    /\ \E raw \in RawValues \cup {NoValue}, options \in [1..NumOptions -> OptionTexts] :
         LoadRow(raw, options)

SpecLoad == Init /\ [][NextLoad]_vars

TypeOK ==
    /\ DOMAIN sessions \subseteq PairIds
    /\ DOMAIN hist = DOMAIN sessions
    /\ \A s \in DOMAIN sessions :
         /\ sessions[s].phase \in {1, 2}
         /\ sessions[s].index \in 0..LastPhase1Index + 1
         /\ sessions[s].score <= sessions[s].asked

\* ---- the claims -----------------------------------------------------------
\* the last reply answered a submit on session s with a grading
GradedReply(s) ==
    /\ s \in DOMAIN sessions
    /\ resp.op = "answer"
    /\ resp.sid = s
    /\ resp.code = 200

\* the first non-empty bucket in the order hard, medium, easy
FirstTier(pools) ==
    IF pools["hard"] # {} THEN "hard"
    ELSE IF pools["medium"] # {} THEN "medium"
    ELSE "easy"

\* C1: a session is in Phase 2 if and only if exactly 5 of its first five
\* gradings were correct; a session whose first five gradings contained a
\* wrong answer never enters Phase 2, whatever is submitted afterwards.
C1_Phase2IffPerfectPhase1 ==
    \A s \in DOMAIN sessions :
        (sessions[s].phase = 2)
            <=> (hist[s].gradings >= Phase1Size /\ hist[s].p1right = Phase1Size)

\* C2: the reply that returns the fifth grading, with c < 5 of the five
\* correct, is finished with total = 5 and score = c; unlock_next and
\* "Ready for next" when 3 <= c, no unlock and "Review & retry" when c < 3.
C2_EarlyFinishResult ==
    \A s \in DOMAIN sessions :
        (GradedReply(s) /\ hist[s].gradings = 5 /\ hist[s].p1right < 5)
            => /\ resp.done
               /\ resp.total = 5
               /\ resp.score = hist[s].p1right
               /\ resp.unlock_next = (hist[s].p1right >= 3)
               /\ resp.status = IF hist[s].p1right >= 3
                                THEN "Ready for next" ELSE "Review & retry"

C2_Witness ==
    \E s \in DOMAIN sessions :
        /\ GradedReply(s)
        /\ hist[s].gradings = 5
        /\ hist[s].p1right = 3
        /\ resp.done /\ resp.unlock_next /\ resp.status = "Ready for next"

\* C3: whatever the size of the bank, each of the first four submits of a
\* session returns finished = false together with the next Phase-1 question.
C3_FirstFourSubmitsContinue ==
    \A s \in DOMAIN sessions :
        (/\ resp.op = "answer" /\ resp.sid = s /\ resp.code # 422
         /\ sessions[s].phase = 1
         /\ sessions[s].asked < 5)
            => /\ resp.code = 200
               /\ ~resp.done
               /\ resp.question # NoQuestion

\* C4: after a perfect Phase 1 the reply that grades the third Phase-2
\* question is finished; with Q6, Q7 and Q8 all right it has total = 8,
\* score = 8 and status "Champion".
C4_ThirdPhase2SubmitFinishes ==
    \A s \in DOMAIN sessions :
        (/\ GradedReply(s)
         /\ hist[s].p1right = 5
         /\ hist[s].gradings = 8
         /\ hist[s].p2gradings = 3)
            => /\ resp.done
               /\ (hist[s].right = 8
                     => resp.total = 8 /\ resp.score = 8 /\ resp.status = "Champion")

\* C5: no question is issued twice within a session: the questions returned
\* by start and by the submits of a session are pairwise distinct.
C5_NoQuestionIssuedTwice ==
    \A s \in DOMAIN sessions : Cardinality(hist[s].issued) = hist[s].nIssued

\* C6: once a submit has returned a finished result for a session, a later
\* submit on it fails and leaves score, asked, phase and index unchanged.
C6_FinishedSessionRejectsSubmits ==
    [][\A s \in DOMAIN sessions :
          hist[s].finished
              => /\ sessions'[s].score = sessions[s].score
                 /\ sessions'[s].asked = sessions[s].asked
                 /\ sessions'[s].phase = sessions[s].phase
                 /\ sessions'[s].index = sessions[s].index
                 /\ (resp'.op = "answer" /\ resp'.sid = s => resp'.code # 200)]_vars

\* C7: the count of questions asked in a session never exceeds 8, and every
\* finished result has total in {5, 6, 7, 8}.
C7_AtMostEightAsked ==
    /\ \A s \in DOMAIN sessions : sessions[s].asked <= 8
    /\ (resp.done => resp.total \in 5..8)

\* C8: the question issued as Q7 is drawn with preferred tier hard when Q6
\* was right and medium when Q6 was wrong: after a wrong Q6 with a non-empty
\* medium bucket, Q7 has difficulty medium.
C8_Q7TierFollowsQ6 ==
    \A s \in DOMAIN sessions :
        (/\ GradedReply(s)
         /\ hist[s].p1right = 5
         /\ hist[s].gradings = 6
         /\ hist[s].p2gradings = 1
         /\ ~resp.done)
            => /\ (~resp.correct /\ sessions[s].pools["medium"] # {}
                     => resp.question.difficulty = "medium")
               /\ (resp.correct /\ sessions[s].pools["hard"] # {}
                     => resp.question.difficulty = "hard")

\* C9: the question issued as Q8 is drawn with preferred tier hard when Q7
\* was right and easy when Q7 was wrong: after a wrong Q7 with a non-empty
\* easy bucket, Q8 has difficulty easy.
C9_Q8TierFollowsQ7 ==
    \A s \in DOMAIN sessions :
        (/\ GradedReply(s)
         /\ hist[s].p1right = 5
         /\ hist[s].gradings = 7
         /\ hist[s].p2gradings = 2
         /\ ~resp.done)
            => /\ (~resp.correct /\ sessions[s].pools["easy"] # {}
                     => resp.question.difficulty = "easy")
               /\ (resp.correct /\ sessions[s].pools["hard"] # {}
                     => resp.question.difficulty = "hard")

\* the last reply moved session s into Phase 2 and carries Q6
IssuesQ6(s) ==
    /\ GradedReply(s)
    /\ sessions[s].phase = 2
    /\ hist[s].p2gradings = 0

C11_TableStatus(total, score) ==
    IF total = 6 /\ score = 5 THEN "Confident"
    ELSE IF total = 7 /\ score = 6 THEN "Proficient"
    ELSE IF total = 8 /\ score = 7 THEN "Master"
    ELSE IF total = 8 /\ score = 8 THEN "Champion"
    ELSE "Great progress"

\* C11: a session that reached Phase 2 gets a finished result with
\* unlock_next = true and the status of the (total, score) table; a perfect
\* Phase 1 followed by one right answer among Q6..Q8 ends with total = 8,
\* score = 6 and "Great progress".
C11_Phase2ResultFollowsTable ==
    \A s \in DOMAIN sessions :
        (/\ GradedReply(s)
         /\ hist[s].p1right = 5
         /\ hist[s].gradings = 8
         /\ hist[s].p2gradings = 3)
            => /\ resp.done
               /\ resp.unlock_next
               /\ resp.status = C11_TableStatus(resp.total, resp.score)
               /\ (hist[s].right = 6
                     => resp.total = 8 /\ resp.score = 6
                        /\ resp.status = "Great progress")

\* C12: in every finished result, score is the number of submits of the
\* session that returned a grading with is_correct = true, and total is the
\* number of submits that returned a grading.
C12_ResultCountsGradings ==
    \A s \in DOMAIN sessions :
        (GradedReply(s) /\ resp.done)
            => /\ resp.score = hist[s].right
               /\ resp.total = hist[s].gradings

C12_Witness ==
    \E s \in DOMAIN sessions :
        /\ GradedReply(s) /\ resp.done
        /\ hist[s].gradings = 5
        /\ hist[s].right = 2
        /\ resp.score = 2 /\ resp.total = 5

\* C13: a submit on a stored, unfinished session returns a next question or a
\* final result and never an error, also when the bank holds fewer questions
\* than the session needs.
C13_SubmitNeverErrors ==
    \A s \in DOMAIN sessions :
        (/\ resp.op = "answer" /\ resp.sid = s /\ resp.code # 422
         /\ (~hist[s].finished \/ resp.done))
            => /\ resp.code = 200
               /\ (resp.done \/ resp.question # NoQuestion)

\* C14: after a perfect Phase 1 with no unused question left in the bank, the
\* fifth submit returns finished = true, total = 5, score = 5,
\* unlock_next = true and "Ready for next" instead of a sixth question.
C14_PerfectAndExhaustedFinishes ==
    \A s \in DOMAIN sessions :
        (/\ GradedReply(s)
         /\ hist[s].gradings = 5
         /\ hist[s].p1right = 5
         /\ (UNION {sessions[s].pools[name] : name \in Tiers})
                \subseteq Range(sessions[s].first5))
            => /\ resp.done
               /\ resp.total = 5 /\ resp.score = 5
               /\ resp.unlock_next
               /\ resp.status = "Ready for next"

\* C15: a submit with a session id that the store does not hold fails,
\* creates no session and changes no field of any stored session.
C15_UnknownSessionRejected ==
    [][(resp'.op = "answer" /\ resp'.sid \notin DOMAIN sessions)
          => /\ resp'.code \in {400, 422}
             /\ sessions' = sessions]_vars

C15_Witness ==
    /\ resp.op = "answer"
    /\ resp.sid \notin DOMAIN sessions
    /\ resp.code = 400
    /\ \E s \in DOMAIN sessions : sessions[s].asked > 0

\* C20: no reply of start or submit carries the correct-answer index: a
\* returned question shows text, options and difficulty only.
C20_NoCorrectIndexInReply ==
    /\ "correct_index" \notin DOMAIN resp
    /\ DOMAIN resp.question = {"text", "options", "difficulty"}

C20_Witness ==
    /\ resp.op = "answer"
    /\ resp.code = 200
    /\ resp.question # NoQuestion
    /\ \E s \in DOMAIN sessions :
          /\ resp.sid = s
          /\ \E q \in Range(sessions[s].first5) :
                q.text = resp.question.text /\ q.correct_index # 0

\* the answers of Answers that are no option position
OutOfRange == {a \in Answers : a < 0 \/ a >= NumOptions}

\* C16: a quiz/answer request whose answer is missing or is an integer
\* outside 0..3 is rejected with an error and is not graded: score, asked,
\* phase and index of the session are unchanged by it.
C16_BadAnswerNotGraded ==
    [][\A s \in DOMAIN sessions :
          (QuizAnswerMissing(s) \/ \E a \in OutOfRange : QuizAnswer(s, a))
              => /\ resp'.code # 200
                 /\ sessions'[s].score = sessions[s].score
                 /\ sessions'[s].asked = sessions[s].asked
                 /\ sessions'[s].phase = sessions[s].phase
                 /\ sessions'[s].index = sessions[s].index]_vars

\* C18: a start or a submit on one session id leaves every field of every
\* other session unchanged, and leaves the cached question bank unchanged.
C18_SessionsIndependent ==
    [][/\ \A s \in DOMAIN sessions :
            s # resp'.sid
                => s \in DOMAIN sessions' /\ sessions'[s] = sessions[s]
       /\ \A t \in DOMAIN cache :
            t \in DOMAIN cache' /\ cache'[t] = cache[t]]_vars

C18_Witness ==
    \E s1, s2 \in DOMAIN sessions :
        /\ s1 # s2
        /\ resp.op = "answer" /\ resp.sid = s2 /\ resp.code = 200
        /\ sessions[s1].asked = 1 /\ sessions[s1].score = 1
        /\ sessions[s2].asked = 1 /\ sessions[s2].score = 0
        /\ sessions[s1].pools = sessions[s2].pools

\* C19: a start on a topic whose bank is not empty adds exactly one session
\* under an id the store did not hold, in Phase 1 with index 0, score 0 and
\* asked 0, and returns that id with the first question of the Phase-1
\* sequence; a start that finds no question fails and adds no session.
C19_StartAddsOneSession ==
    [][\A topic \in Topics :
          QuizStartAsWritten(topic)
              => IF LoadSheet(topic) # {}
                 THEN /\ resp'.code = 200
                      /\ resp'.sid \notin DOMAIN sessions
                      /\ DOMAIN sessions' = DOMAIN sessions \cup {resp'.sid}
                      /\ sessions'[resp'.sid].phase = 1
                      /\ sessions'[resp'.sid].index = 0
                      /\ sessions'[resp'.sid].score = 0
                      /\ sessions'[resp'.sid].asked = 0
                      /\ resp'.question = Public(sessions'[resp'.sid].first5[1])
                 ELSE /\ resp'.code # 200
                      /\ sessions' = sessions]_vars

\* C17: two submits issued at once on one session id behave as if executed
\* one after the other: they are graded against two different outstanding
\* questions, so no question is consumed by both.
C17_ConcurrentSubmitsSerialize ==
    \A t1, t2 \in Threads :
        (/\ t1 # t2
         /\ thr[t1] # Idle /\ thr[t2] # Idle
         /\ thr[t1].sid = thr[t2].sid)
            => thr[t1].curr # thr[t2].curr

\* the tiers of the questions in a sequence
TiersIn(seq) == {seq[i].difficulty : i \in 1..Len(seq)}

Outstanding(s) ==
    CHOOSE it \in UNION {sessions[s].pools[name] : name \in Tiers} :
        Public(it) = hist[s].last

\* C22: every submit on an unfinished session grades the answer against the
\* question most recently returned to the caller of that session, adds
\* exactly 1 to asked, and adds 1 to score if and only if the answer equals
\* that question's correct index.
C22_SubmitGradesOutstanding ==
    [][\A s \in SessionIds, a \in Answers :
         (/\ s \in DOMAIN sessions
          /\ ~hist[s].finished
          /\ resp'.op = "answer" /\ resp'.sid = s
          /\ QuizAnswer(s, a)) =>
            LET correct == (a = Outstanding(s).correct_index)
            IN /\ sessions'[s].asked = sessions[s].asked + 1
               /\ sessions'[s].score =
                    sessions[s].score + (IF correct THEN 1 ELSE 0)
               /\ resp'.code = 200 => resp'.correct = correct]_vars

\* C23: in every state reached by start and submit calls made one after the
\* other, 0 <= score <= asked and the Phase-1 correct count is at most 5;
\* while the session is in Phase 1 the score equals the Phase-1 correct count.
C23_ScoreWithinAsked ==
    \A s \in DOMAIN sessions :
        /\ 0 <= sessions[s].score
        /\ sessions[s].score <= sessions[s].asked
        /\ sessions[s].first5_correct <= Phase1Size
        /\ sessions[s].phase = 1 => sessions[s].score = sessions[s].first5_correct

\* a Phase-2 session with right and wrong Phase-2 answers behind it
C23_Witness ==
    \E s \in DOMAIN sessions :
        /\ sessions[s].phase = 2
        /\ sessions[s].first5_correct = Phase1Size
        /\ sessions[s].score > Phase1Size
        /\ sessions[s].score < sessions[s].asked

\* C24: in every finished result returned by submit, after any sequence of
\* calls, unlock_next is true if and only if the returned score is at least 3.
C24_UnlockIffScoreAtLeastThree ==
    (resp.op = "answer" /\ resp.code = 200 /\ resp.done) =>
        (resp.unlock_next <=> resp.score >= PassMark)

\* a finished result with score 3 that unlocks, returned for a submit made
\* after the session had already finished with score 2
C24_Witness ==
    /\ resp.op = "answer" /\ resp.code = 200 /\ resp.done
    /\ resp.score = PassMark /\ resp.unlock_next
    /\ resp.total > Phase1Size

\* the first position, counted from 0, at which text t stands in options
PositionOf(t, options) ==
    (CHOOSE i \in 1..Len(options) :
        t = options[i] /\ \A j \in 1..(i - 1) : t # options[j]) - 1

\* a text of decimal digits that denotes one of the indices 0-3
IndexText(t) ==
    /\ t # <<>>
    /\ \A i \in 1..Len(t) : t[i] \in DOMAIN DecimalValue
    /\ IntOf(t) \in 0..(NumOptions - 1)

\* a text that is one letter A-D, in either case
LetterText(t) == Upper(t) \in DOMAIN Letters

\* a text that stands among the options
OptionText(t, options) == \E i \in 1..Len(options) : t = options[i]

\* C25: for every raw correct-answer value and every list of four options
\* the normalized correct_index is an integer in 0..3: a digit string 0-3
\* gives that index, a letter A-D in any case its position in the alphabet,
\* a text equal to one of the options that option's position, and anything
\* else, a missing value included, gives 0.  The cases are taken in the order
\* named, and surrounding blanks do not make an index or a letter "anything else".
C25_NormalizedIndex ==
    row # NoRow =>
        LET raw == row.raw
            options == row.options
            t == IF raw = NoValue THEN <<>> ELSE Strip(raw)
        IN /\ ~row.correct.raised
           /\ row.correct.index \in 0..(NumOptions - 1)
           /\ raw = NoValue => row.correct.index = 0
           /\ (raw # NoValue /\ IndexText(raw)) => row.correct.index = IntOf(raw)
           /\ (raw # NoValue /\ ~IndexText(raw) /\ LetterText(raw))
                => row.correct.index = Letters[Upper(raw)]
           /\ (raw # NoValue /\ ~IndexText(t) /\ ~LetterText(t)
               /\ OptionText(raw, options))
                => row.correct.index = PositionOf(raw, options)
           /\ (raw # NoValue /\ ~IndexText(t) /\ ~LetterText(t)
               /\ ~OptionText(raw, options) /\ ~OptionText(t, options))
                => row.correct.index = 0

====
